---- MODULE Spec2Model ----
(***************************************************************************)
(* Authl: the IndieAuth handler (verify_id, find_endpoint, initiate_auth,  *)
(* check_callback), the email magic-link handler, the dispatcher (class    *)
(* Authl) and the disposition constructors, as state machines.             *)
(*                                                                         *)
(* Strings that the code takes apart (URL paths, email addresses) are      *)
(* sequences of one-character strings; a URL is the record of the          *)
(* components urllib.parse.urlparse yields (scheme, netloc, path).         *)
(* Python's None is the empty sequence, a present value x is <<x>>.        *)
(***************************************************************************)
EXTENDS Integers, Sequences, FiniteSets, TLC

VARIABLES
    \* ---- verify_id called on its own
    request_id,     \* the identity URL of the request
    response_id,    \* the identity URL the provider answered with
    result,         \* what verify_id returned: None or <<url>>
    vpc,            \* "call" before the call, "done" after it
    \* ---- the IndieAuth handler
    ia_now,         \* the wall clock, in seconds
    ia_timeout,     \* self._timeout
    endpoint_cache, \* _ENDPOINT_CACHE: identity URL -> None or <<endpoint>>
    token_store,    \* the tokens self._token_store issued, in order of issue
    cb_seen,        \* per token: callbacks that resolved it and whose exchange
                    \* verify_id accepted (0, 1, 2 = two or more)
    ia_last,        \* the last handler call: its arguments and its outcome
    \* ---- the email handler
    em_now,         \* time.time(), in ticks (Scale ticks to the second)
    em_lifetime,    \* self._lifetime, in seconds
    timeouts,       \* self._timeouts: address -> None or <<[value, set_at]>>
    sent,           \* the messages self._sendmail has delivered
    extended,       \* per address: calls the rate limit turned away since the
                    \* last message to it
    redeemed,       \* the query parameters check_callback has answered
                    \* Verified for
    em_last,        \* the handler call that has just returned, if one has
    \* ---- the dispatcher (class Authl) and find_endpoint called on its own
    handlers,       \* self._handlers
    matched,        \* the (handler, id) a caller holds from get_handler_for_url
    au_last,        \* the last call: its arguments and its outcome
    \* ---- EmailAddress.initiate_auth handled by concurrent threads
    threads         \* per thread: where it is in the call, and its locals

verifyVars == <<request_id, response_id, result, vpc>>
iaVars == <<ia_now, ia_timeout, endpoint_cache, token_store, cb_seen, ia_last>>
emVars == <<em_now, em_lifetime, timeouts, sent, extended, redeemed, em_last>>
auVars == <<handlers, matched, au_last>>
concVars == <<threads>>
vars == <<verifyVars, iaVars, emVars, auVars, concVars>>

----------------------------------------------------------------------------
\* Bounds of the model

\* longest request path, in characters
MaxReqLen == 3
\* longest response path, in characters
MaxRespLen == 5
\* the IndieAuth clock stops here, in seconds
MaxClock == 700
\* state tokens one handler issues
MaxTokens == 1
\* handlers registered with one Authl
MaxHandlers == 3
\* the email clock stops here, in seconds
MaxEmClock == 610
\* messages the email handler sends
MaxSends == 2
\* calls in a row the rate limit turns away, per address
MaxExtends == 2
\* the same, where one address is followed through a long cooldown
MaxStreak == 12
\* the clock of the long cooldown stops here, in seconds
MaxLongClock == 3600

----------------------------------------------------------------------------
\* Values

None == <<>>
Some(x) == <<x>>

PathChars == {"/", ".", "u", "x"}
Netlocs == {"a.example", "b.example"}
Schemes == {"https", "http"}

Url(scheme, netloc, path) == [scheme |-> scheme, netloc |-> netloc, path |-> path]

\* The paths urlparse can yield for a URL with a network location: empty, or
\* starting with a slash; at most n characters.
Paths(n) ==
    { p \in UNION { [1..k -> PathChars] : k \in 0..n } : p = <<>> \/ p[1] = "/" }

----------------------------------------------------------------------------
\* str.split('/') and '/'.join

RECURSIVE Split(_)
Split(s) ==
    IF s = <<>> THEN << <<>> >>
    ELSE LET rest == Split(Tail(s))
         IN  IF Head(s) = "/"
             THEN << <<>> >> \o rest
             ELSE << <<Head(s)>> \o Head(rest) >> \o Tail(rest)

RECURSIVE Join(_)
Join(segs) ==
    IF segs = <<>> THEN <<>>
    ELSE IF Len(segs) = 1 THEN segs[1]
    ELSE segs[1] \o <<"/">> \o Join(Tail(segs))

Last(s) == s[Len(s)]
Pop(s) == SubSeq(s, 1, Len(s) - 1)
\* Python's s[:n]
Take(s, n) == SubSeq(s, 1, IF n < Len(s) THEN n ELSE Len(s))

DotDot == <<".", ".">>
Dot == <<".">>

----------------------------------------------------------------------------
\* verify_id

\* orig.path.split('/') with one trailing empty component removed
OrigPath(path) ==
    LET parts == Split(path)
    IN  IF Last(parts) = <<>> THEN Pop(parts) ELSE parts

\* (mutant of NormLoop) a '..' at the root is ignored instead of rejected
RECURSIVE NormLoopClamped(_, _)
NormLoopClamped(parts, norm) ==
    IF parts = <<>> THEN [escaped |-> FALSE, norm |-> norm]
    ELSE LET part == Head(parts)
         IN  IF part = DotDot
             THEN IF Pop(norm) = <<>>
                  THEN NormLoopClamped(Tail(parts), norm)
                  ELSE NormLoopClamped(Tail(parts), Pop(norm))
             ELSE IF part \notin {<<>>, Dot}
                  THEN NormLoopClamped(Tail(parts), Append(norm, part))
                  ELSE NormLoopClamped(Tail(parts), norm)

\* The loop over resp_path: a '..' pops, and returns at once when nothing is
\* left; '' and '.' are skipped; anything else is appended.
RECURSIVE NormLoop(_, _)
NormLoop(parts, norm) ==
    IF parts = <<>> THEN [escaped |-> FALSE, norm |-> norm]
    ELSE LET part == Head(parts)
         IN  IF part = DotDot
             THEN IF Pop(norm) = <<>>
                  THEN [escaped |-> TRUE, norm |-> <<>>]
                  ELSE NormLoop(Tail(parts), Pop(norm))
             ELSE IF part \notin {<<>>, Dot}
                  THEN NormLoop(Tail(parts), Append(norm, part))
                  ELSE NormLoop(Tail(parts), norm)

\* The normalized response path: the loop, then "allow a trailing slash".
NormPath(path) ==
    LET resp_path == Split(path)
        loop == NormLoop(resp_path, << <<>> >>)
    IN  IF loop.escaped THEN loop
        ELSE [escaped |-> FALSE,
              norm |-> IF Last(resp_path) = <<>>
                       THEN Append(loop.norm, <<>>) ELSE loop.norm]

\* (mutant of PathMismatch) the paths compared as strings, by startswith
PathMismatchAsString(norm_path, orig_path) ==
    Take(Join(norm_path), Len(Join(orig_path))) # Join(orig_path)

\* norm_path[:len(orig_path)] != orig_path
PathMismatch(norm_path, orig_path) ==
    Take(norm_path, Len(orig_path)) # orig_path

\* (mutant of NetlocMismatch) the scheme compared in place of the netloc
NetlocMismatchOnScheme(orig, resp) == orig.scheme # resp.scheme

\* orig.netloc != resp.netloc
NetlocMismatch(orig, resp) == orig.netloc # resp.netloc

verify_id(req, resp) ==
    IF NetlocMismatch(req, resp) THEN None
    ELSE LET orig_path == OrigPath(req.path)
             n == NormPath(resp.path)
         IN  IF n.escaped THEN None
             ELSE IF PathMismatch(n.norm, orig_path) THEN None
             ELSE Some([resp EXCEPT !.path = Join(n.norm)])

----------------------------------------------------------------------------
\* Dispositions (disposition.py).  A constructor called with a number of
\* positional arguments its __init__ does not take raises TypeError, and so
\* does the call that was to return the disposition.

Raised(exc) == [kind |-> "Raised", exc |-> exc]

\* Redirect.__init__(self, url)
Redirect(args) ==
    IF Len(args) = 1 THEN [kind |-> "Redirect", url |-> args[1]]
    ELSE Raised("TypeError")

\* Verified.__init__(self, identity, profile=None)
Verified(args) ==
    IF Len(args) \in {1, 2}
    THEN [kind |-> "Verified", identity |-> args[1],
          profile |-> IF Len(args) = 2 THEN args[2] ELSE None]
    ELSE Raised("TypeError")

\* Notify.__init__(self, message, args=None)
Notify(args) ==
    IF Len(args) \in {1, 2}
    THEN [kind |-> "Notify", message |-> args[1],
          args |-> IF Len(args) = 2 THEN args[2] ELSE None]
    ELSE Raised("TypeError")

\* Error.__init__(self, message)
Error(args) ==
    IF Len(args) = 1 THEN [kind |-> "Error", message |-> args[1]]
    ELSE Raised("TypeError")

\* "except disposition.Disposition as disp: return disp".  class Disposition has
\* no exception base, so Python refuses to match the exception unpack_token
\* raised against it: "catching classes that do not inherit from BaseException
\* is not allowed", a TypeError raised out of check_callback.
CaughtAsDisposition(exc) == Raised("TypeError")

----------------------------------------------------------------------------
\* The IndieAuth handler: values

IdUrls == { Url("https", "a.example", <<"/", "u">>), Url("https", "a.example", <<>>) }
CallbackUri == "https://app.example/cb/0"
ClientId == "https://app.example/"
Redirs == {"/home", "/inbox"}

\* what a Link header or a <link> element can name
EpHeader == Url("https", "auth.example", <<"/", "h">>)
EpTag == Url("https", "auth.example", <<"/", "t">>)
\* a reference without scheme and netloc: a path on the identity's own site
RelTag == Url("", "", <<"/", "t">>)
Hrefs == {EpTag, RelTag}

\* request.links, relation -> URL: without a Link header (None, as the empty
\* dict is falsy), with one of another relation, with authorization_endpoint
OtherLinks == [rel \in {"stylesheet"} |-> Url("https", "a.example", <<"/", "s">>)]
EpLinks == [rel \in {"authorization_endpoint"} |-> EpHeader]
LinkHeaders == {None, OtherLinks, EpLinks}

\* a parsed document: what content.find('link', rel='authorization_endpoint')
\* finds in it, as the href of the element, or None
Doc(link) == [link |-> link]
Documents == {Doc(None)} \cup { Doc(Some(h)) : h \in Hrefs }

\* a page as a caller supplies it (either part may be missing), and as a GET
\* yields it (BeautifulSoup(request.text) is always a document)
Pages == [links : LinkHeaders, content : {None} \cup Documents]
FetchedPages == [links : LinkHeaders, content : Documents]
NetworkFailure == [failed |-> TRUE]
Fetched(page) == [failed |-> FALSE, links |-> page.links, content |-> page.content]
FetchResults == {NetworkFailure} \cup { Fetched(pg) : pg \in FetchedPages }
\* the answers of the network that a call making `gets` GETs can tell apart
AnswersTo(gets) == IF gets > 0 THEN FetchResults ELSE {NetworkFailure}

\* the identity URLs a provider can answer with
MeValues ==
    { Url("https", "a.example", <<"/", "u", "/">>),
      Url("https", "a.example", <<"/", "u", "x">>),
      Url("https", "b.example", <<"/", "u">>),
      Url("https", "a.example", <<"/", ".", ".", "/", "u">>) }

\* the provider's answer to the code exchange
Exchanges ==
    { [kind |-> "netfail", status |-> 0, body |-> "none", me |-> None] }
    \cup { [kind |-> "http", status |-> 403, body |-> "json", me |-> None] }
    \cup { [kind |-> "http", status |-> 200, body |-> b, me |-> None] : b \in {"notjson", "json"} }
    \cup { [kind |-> "http", status |-> 200, body |-> "json", me |-> Some(m)] : m \in MeValues }

NoCall == [op |-> "none"]

----------------------------------------------------------------------------
\* find_endpoint

\* urllib.parse.urljoin(id_url, href) for a reference that is a full URL, or
\* a path starting with a slash
urljoin(base, ref) ==
    IF ref.scheme # "" THEN ref
    ELSE IF ref.netloc # "" THEN [ref EXCEPT !.scheme = base.scheme]
    ELSE Url(base.scheme, base.netloc, ref.path)

\* "link = content.find(...); if link: if id_url: return urljoin(id_url, href);
\* return href"
link_tag(id_url, content) ==
    IF content # None /\ content.link # None
    THEN IF id_url # None THEN Some(urljoin(id_url, content.link[1])) ELSE content.link
    ELSE None

\* "if links and 'authorization_endpoint' in links: return links[...]['url']"
link_header(links) ==
    IF links # None /\ "authorization_endpoint" \in DOMAIN links
    THEN Some(links["authorization_endpoint"])
    ELSE None

\* (mutant of _derive_endpoint) the <link> element read before the header
_derive_endpoint_tag_first(id_url, links, content) ==
    IF link_tag(id_url, content) # None THEN link_tag(id_url, content)
    ELSE link_header(links)

\* _derive_endpoint(links, content), a closure over id_url: the header's
\* relation when there is one, else the <link> element's href, joined to the
\* identity URL when one was given
_derive_endpoint(id_url, links, content) ==
    IF link_header(links) # None THEN link_header(links)
    ELSE link_tag(id_url, content)

\* _ENDPOINT_CACHE.get(id_url)
cache_get(cache, id_url) ==
    IF id_url \in DOMAIN cache THEN cache[id_url] ELSE None

\* (mutant of should_fetch) the cached endpoint does not hold the fetch back
should_fetch_despite_cache(id_url, found, cached) ==
    id_url # None /\ found = None

\* (mutant of should_fetch) a fetch although the supplied page named an endpoint
should_fetch_despite_found(id_url, found, cached) ==
    id_url # None /\ cached = None

\* "if id_url and not found and not cached"
should_fetch(id_url, found, cached) ==
    id_url # None /\ found = None /\ cached = None

\* (mutant of cache_update) an entry that is there is kept
cache_update_keeping(cache, id_url, found) ==
    IF found # None /\ id_url # None /\ cache[id_url] = None
    THEN [cache EXCEPT ![id_url] = found] ELSE cache

\* "if found and id_url: _ENDPOINT_CACHE[id_url] = found"
cache_update(cache, id_url, found) ==
    IF found # None /\ id_url # None
    THEN [cache EXCEPT ![id_url] = found] ELSE cache

\* find_endpoint(id_url, links, content): what it returns, the cache it
\* leaves, the GETs it made; `fetch` is what a GET on id_url yields.
find_endpoint(cache, id_url, links, content, fetch) ==
    LET cached == cache_get(cache, id_url)
        found0 == IF links # None \/ content # None
                  THEN _derive_endpoint(id_url, links, content) ELSE None
        doFetch == should_fetch(id_url, found0, cached)
    IN  IF doFetch /\ fetch.failed
        THEN [raised |-> TRUE, ret |-> None, cache |-> cache, fetched |-> TRUE, gets |-> 1]
        ELSE LET found == IF doFetch
                          THEN _derive_endpoint(id_url, fetch.links, fetch.content)
                          ELSE found0
             IN  [raised |-> FALSE,
                  ret |-> IF found # None THEN found ELSE cached,
                  cache |-> cache_update(cache, id_url, found),
                  fetched |-> doFetch,
                  gets |-> IF doFetch THEN 1 ELSE 0]

----------------------------------------------------------------------------
\* The token store and utils.unpack_token

\* token_store.dumps(((id_url, endpoint, callback_uri), redir)): the new store;
\* the token is the position of the entry
Dumps(store, id_url, endpoint, callback_uri, redir, now) ==
    Append(store, [id_url |-> id_url, endpoint |-> endpoint,
                   callback_uri |-> callback_uri, redir |-> redir, issued |-> now])

\* the token resolves: it was issued and is not older than the timeout
Resolves(store, state, timeout, now) ==
    /\ state \in 1..Len(store)
    /\ now - store[state].issued <= timeout

----------------------------------------------------------------------------
\* IndieAuth.__init__

\* self._timeout = timeout or 600
DefaultTimeout == 600
TimeoutOf(timeout) == IF timeout = None THEN DefaultTimeout ELSE timeout[1]

----------------------------------------------------------------------------
\* IndieAuth.initiate_auth

AuthUrl(endpoint, callback_uri, state, id_url) ==
    [endpoint |-> endpoint,
     query |-> [redirect_uri |-> callback_uri, client_id |-> ClientId,
                state |-> state, response_type |-> "id", me |-> id_url]]

InitiateAuth(id_url, redir, fetch) ==
    LET fe == find_endpoint(endpoint_cache, id_url, None, None, fetch)
        call == [op |-> "initiate_auth", id_url |-> id_url, redir |-> redir,
                 fetched |-> fe.fetched, endpoint |-> fe.ret,
                 tokens |-> Len(token_store)]
    IN  /\ (fe.raised \/ fe.ret = None \/ Len(token_store) < MaxTokens)
        /\ IF fe.raised
           THEN /\ ia_last' = call @@ [out |-> Raised("ConnectionError")]
                /\ UNCHANGED <<endpoint_cache, token_store, cb_seen>>
           ELSE IF fe.ret = None
           THEN /\ ia_last' = call @@ [out |-> Error(<<"Failed to get IndieAuth endpoint", redir>>)]
                /\ endpoint_cache' = fe.cache
                /\ UNCHANGED <<token_store, cb_seen>>
           ELSE /\ token_store' = Dumps(token_store, id_url, fe.ret[1], CallbackUri, redir, ia_now)
                /\ cb_seen' = Append(cb_seen, 0)
                /\ endpoint_cache' = fe.cache
                /\ ia_last' = call @@
                       [out |-> Redirect(<<AuthUrl(fe.ret[1], CallbackUri,
                                                   Len(token_store) + 1, id_url)>>)]
        /\ UNCHANGED <<ia_now, ia_timeout>>

----------------------------------------------------------------------------
\* IndieAuth.check_callback

\* the body of check_callback after the transaction was unpacked
Exchange(txn, has_code, exch) ==
    IF ~has_code
    THEN \* get['code'] raises KeyError, caught at the end of the try
         Error(<<"Missing 'code'", txn.redir>>)
    ELSE IF exch.kind = "netfail"
    THEN \* requests.post raises; only KeyError is caught
         Raised("ConnectionError")
    ELSE IF exch.status # 200
    THEN Error(<<"Unable to verify identity", txn.redir>>)
    ELSE IF exch.body = "notjson"
    THEN \* the ValueError is caught, and evaluating the arguments of
         \* LOGGER.error reads request.headersversion, which no Response has
         Raised("AttributeError")
    ELSE IF exch.me = None
    THEN \* response['me'] raises KeyError
         Error(<<"Missing 'me'", txn.redir>>)
    ELSE LET verified_id == verify_id(txn.id_url, exch.me[1])
         IN  IF verified_id = None
             THEN Error(<<"Identity URL does not match", txn.redir>>)
             ELSE Verified(<<verified_id[1], txn.redir, exch>>)

check_callback(store, timeout, now, state, has_code, exch) ==
    IF state = None
    THEN Error(<<"No transaction provided", None>>)
    ELSE IF ~Resolves(store, state[1], timeout, now)
    THEN CaughtAsDisposition("unpack_token")
    ELSE Exchange(store[state[1]], has_code, exch)

\* state: None when the parameter is missing, <<0>> a value that was never
\* issued, <<k>> the k-th token issued
CheckCallback(state, has_code, exch) ==
    LET resolved == state # None /\ Resolves(token_store, state[1], ia_timeout, ia_now)
        accepted == /\ resolved /\ has_code /\ exch.kind = "http" /\ exch.status = 200
                    /\ exch.body = "json" /\ exch.me # None
                    /\ verify_id(token_store[state[1]].id_url, exch.me[1]) # None
    IN  /\ ia_last' = [op |-> "check_callback", state |-> state, has_code |-> has_code,
                       exch |-> exch, resolved |-> resolved, at |-> ia_now,
                       out |-> check_callback(token_store, ia_timeout, ia_now,
                                              state, has_code, exch)]
        /\ cb_seen' = IF accepted
                      THEN [cb_seen EXCEPT ![state[1]] = IF @ < 2 THEN @ + 1 ELSE @]
                      ELSE cb_seen
        /\ UNCHANGED <<ia_now, ia_timeout, endpoint_cache, token_store>>

\* time passes
TickSteps == {300, 301}
Tick(d) ==
    /\ ia_now + d <= MaxClock
    /\ ia_now' = ia_now + d
    /\ UNCHANGED <<ia_timeout, endpoint_cache, token_store, cb_seen, ia_last>>

----------------------------------------------------------------------------
\* The email handler: values

\* Times are whole ticks.  The rate limit multiplies a wait by 1.2, that is
\* by 6/5: with Scale a power of five above MaxExtends every product is a
\* whole number of ticks, so the arithmetic is the exact one.  In a longer run
\* of extensions (MaxStreak) a product is rounded down to the tick, 1/625 s,
\* where the code rounds to a float.
Scale == 625
Secs(n) == n * Scale

\* addresses, case kept as typed
Addrs == { <<"B", "@", "x">>, <<"b", "@", "x">> }

\* str.lower()
LowerChar(c) == IF c = "B" THEN "b" ELSE IF c = "X" THEN "x" ELSE c
Lower(str) == [i \in 1..Len(str) |-> LowerChar(str[i])]

\* the identity URLs handles_url yields, as urlparse splits them: mailto:addr
\* (the bare address parses to the same path)
MailUrls == { [scheme |-> "mailto", path |-> a] : a \in Addrs }

SecretKey == "key"
OtherKey == "not the key"

\* the keyed signature of ska over (auth_user, valid_until): equal exactly
\* when key, user and expiry are equal
Signature(key, auth_user, valid_until) == <<key, auth_user, valid_until>>

\* EmailAddress.__init__: self._lifetime = expires_time or 900
DefaultLifetime == 900
LifetimeOf(expires_time) == IF expires_time = None THEN DefaultLifetime ELSE expires_time[1]

\* ExpiringDict(max_age_seconds=self._lifetime * 4, ...)
MaxAgeFactor == 4
MaxAge(lifetime) == Secs(lifetime * MaxAgeFactor)

\* ExpiringDict: an entry is there while its age is below max_age
Live(dict, key, lifetime, now) ==
    /\ dict[key] # None
    /\ now - dict[key][1].set_at < MaxAge(lifetime)

\* ExpiringDict.__contains__ and __getitem__ delete the entry they find expired
Purged(dict, key, lifetime, now) ==
    IF dict[key] # None /\ ~Live(dict, key, lifetime, now)
    THEN [dict EXCEPT ![key] = None] ELSE dict

\* ExpiringDict.__setitem__
SetItem(dict, key, value, now) ==
    [dict EXCEPT ![key] = Some([value |-> value, set_at |-> now])]

----------------------------------------------------------------------------
\* EmailAddress.initiate_auth

\* (mutant of wait_time) next * 1.2 - now
wait_time_misplaced(next_allowed, now) == (next_allowed * 6) \div 5 - now

\* wait_time = (self._timeouts[dest_addr] - now) * 1.2
wait_time(next_allowed, now) == ((next_allowed - now) * 6) \div 5

\* math.ceil(wait_time / 60)
CeilMinutes(wait) == (wait + Secs(60) - 1) \div Secs(60)

\* ska.sign_url(url=callback_url, auth_user=dest_addr, lifetime=...): the
\* parameters the signed URL carries
sign_url(auth_user, lifetime, now) ==
    [u |-> auth_user,
     v |-> now + Secs(lifetime),
     s |-> Signature(SecretKey, auth_user, now + Secs(lifetime))]

\* self._timeouts[dest_addr] = now + self._lifetime / 2
NextAllowed(lifetime, now) == now + Secs(lifetime) \div 2

\* (mutant of timeouts_after_failed_send) the cooldown recorded before the send
timeouts_recorded_before_send(dict, dest_addr, lifetime, now) ==
    SetItem(dict, dest_addr, NextAllowed(lifetime, now), now)

\* self._sendmail(msg) raised: the assignment after it does not run; the test
\* "dest_addr in self._timeouts" has dropped an entry it found expired
timeouts_after_failed_send(dict, dest_addr, lifetime, now) ==
    Purged(dict, dest_addr, lifetime, now)

\* initiate_auth(id_url, callback_url); the model follows at most max_extends
\* calls in a row that the rate limit turns away and max_sends messages
EmInitiateAuthWithin(id_url, send_ok, max_extends, max_sends) ==
    LET dest_addr == id_url.path
        now == em_now
        limited == /\ Live(timeouts, dest_addr, em_lifetime, now)
                   /\ timeouts[dest_addr][1].value > now
        call == [op |-> "initiate_auth", addr |-> dest_addr, at |-> now,
                 prev |-> Purged(timeouts, dest_addr, em_lifetime, now)[dest_addr],
                 recorded |-> timeouts[dest_addr]]
    IN  IF limited
        THEN LET wait == wait_time(timeouts[dest_addr][1].value, now)
             IN  /\ extended[dest_addr] < max_extends
                 /\ extended' = [extended EXCEPT ![dest_addr] = @ + 1]
                 /\ timeouts' = SetItem(timeouts, dest_addr, now + wait, now)
                 /\ em_last' = call @@
                        [wait |-> wait, sendmail |-> "not called",
                         out |-> Error(<<[text |-> "please wait", email |-> dest_addr,
                                          minutes |-> CeilMinutes(wait)]>>)]
                 /\ UNCHANGED <<em_now, em_lifetime, sent, redeemed>>
        ELSE IF ~send_ok
        THEN \* self._sendmail(msg) raises, and nothing after it runs
             /\ timeouts' = timeouts_after_failed_send(timeouts, dest_addr, em_lifetime, now)
             /\ em_last' = call @@ [wait |-> 0, sendmail |-> "raised",
                                    out |-> Raised("sendmail")]
             /\ UNCHANGED <<em_now, em_lifetime, sent, extended, redeemed>>
        ELSE /\ Cardinality(sent) < max_sends
             /\ sent' = sent \cup {[to |-> dest_addr, at |-> now,
                                     link |-> sign_url(dest_addr, em_lifetime, now)]}
             /\ timeouts' = SetItem(timeouts, dest_addr, NextAllowed(em_lifetime, now), now)
             /\ extended' = [extended EXCEPT ![dest_addr] = 0]
             /\ em_last' = call @@ [wait |-> 0, sendmail |-> "returned",
                                    out |-> Notify(<<"cdata">>)]
             /\ UNCHANGED <<em_now, em_lifetime, redeemed>>

EmInitiateAuth(id_url, send_ok) ==
    EmInitiateAuthWithin(id_url, send_ok, MaxExtends, MaxSends)

----------------------------------------------------------------------------
\* EmailAddress.initiate_auth in threads that share the handler: the steps of
\* one call, between which the steps of another call can run

\* the threads of the web server that are handling a login request
Threads == {1, 2}

emRest == <<em_now, em_lifetime, extended, redeemed, em_last>>

\* "now = time.time()" and the test
\* "dest_addr in self._timeouts and self._timeouts[dest_addr] > now"
ThreadCheck(t, id_url) ==
    LET dest_addr == id_url.path
        now == em_now
        limited == /\ Live(timeouts, dest_addr, em_lifetime, now)
                   /\ timeouts[dest_addr][1].value > now
        seen == Purged(timeouts, dest_addr, em_lifetime, now)
    IN  /\ threads[t].pc = "idle"
        /\ threads' = [threads EXCEPT ![t] =
                          [pc |-> IF limited THEN "extend" ELSE "send",
                           addr |-> dest_addr, now |-> now,
                           fresh |-> seen[dest_addr] = None]]
        /\ timeouts' = seen
        /\ UNCHANGED <<sent, emRest>>

\* the thread returns (or raises) `out`
Finished(me, out) == [me EXCEPT !.pc = "done"] @@ [out |-> out]

\* the rate-limited branch: the entry is read again, extended and written,
\* and Error returned
ThreadExtend(t) ==
    LET me == threads[t]
    IN  /\ me.pc = "extend"
        /\ IF Live(timeouts, me.addr, em_lifetime, em_now)
           THEN LET wait == wait_time(timeouts[me.addr][1].value, me.now)
                IN  /\ timeouts' = SetItem(timeouts, me.addr, me.now + wait, em_now)
                    /\ threads' = [threads EXCEPT ![t] = Finished(me,
                           Error(<<[text |-> "please wait", email |-> me.addr,
                                    minutes |-> CeilMinutes(wait)]>>))]
           ELSE \* the entry expired since the test: self._timeouts[dest_addr]
                \* raises KeyError
                /\ timeouts' = Purged(timeouts, me.addr, em_lifetime, em_now)
                /\ threads' = [threads EXCEPT ![t] = Finished(me, Raised("KeyError"))]
        /\ UNCHANGED <<sent, emRest>>

\* the link is signed and self._sendmail(msg) called
ThreadSend(t, send_ok) ==
    LET me == threads[t]
    IN  /\ me.pc = "send"
        /\ IF send_ok
           THEN /\ sent' = sent \cup {[to |-> me.addr, at |-> me.now, by |-> t,
                                       link |-> sign_url(me.addr, em_lifetime, me.now)]}
                /\ threads' = [threads EXCEPT ![t].pc = "record"]
           ELSE /\ sent' = sent
                /\ threads' = [threads EXCEPT ![t] = Finished(me, Raised("sendmail"))]
        /\ UNCHANGED <<timeouts, emRest>>

\* "self._timeouts[dest_addr] = now + self._lifetime / 2" and Notify returned
ThreadRecord(t) ==
    LET me == threads[t]
    IN  /\ me.pc = "record"
        /\ timeouts' = SetItem(timeouts, me.addr, NextAllowed(em_lifetime, me.now), em_now)
        /\ threads' = [threads EXCEPT ![t] = Finished(me, Notify(<<"cdata">>))]
        /\ UNCHANGED <<sent, emRest>>

----------------------------------------------------------------------------
\* EmailAddress.check_callback

\* ska.validate_signed_request_data(data=get, secret_key=...): the reasons it
\* refuses the parameters for; none when it accepts them
validation_reason(get, now) ==
    (IF get.s # Signature(SecretKey, get.u, get.v) THEN <<"invalid signature">> ELSE <<>>)
    \o (IF get.v < now THEN <<"signature timestamp expired">> ELSE <<>>)

\* (mutant of verified_identity) the address as the link carries it
verified_identity_as_sent(auth_user) == auth_user

\* get[self._cfg['auth_user_param']].lower()
verified_identity(auth_user) == Lower(auth_user)

em_check_callback(get, now) ==
    LET reason == validation_reason(get, now)
    IN  IF reason = <<>>
        THEN Verified(<<verified_identity(get.u)>>)
        ELSE Error(<<reason>>)

\* the query parameters a client can present: those of a delivered link, as
\* they are, or with the user, the expiry or the signature replaced
Presented(link) ==
    {link}
    \cup { [link EXCEPT !.u = a] : a \in Addrs \ {link.u} }
    \cup { [link EXCEPT !.v = @ + Secs(em_lifetime)] }
    \cup { [link EXCEPT !.s = Signature(OtherKey, link.u, link.v)] }

EmCheckCallback(get) ==
    LET out == em_check_callback(get, em_now)
    IN  /\ em_last' = [op |-> "check_callback", get |-> get, at |-> em_now,
                       again |-> get \in redeemed, out |-> out]
        /\ redeemed' = IF out.kind = "Verified" THEN redeemed \cup {get} ELSE redeemed
        /\ UNCHANGED <<em_now, em_lifetime, timeouts, sent, extended>>

\* time passes: d seconds, the clock not running beyond max_clock
EmTickWithin(d, max_clock) ==
    /\ em_now + Secs(d) <= Secs(max_clock)
    /\ em_now' = em_now + Secs(d)
    /\ em_last' = NoCall
    /\ UNCHANGED <<em_lifetime, timeouts, sent, extended, redeemed>>

EmTickSteps == {300, 301}
EmTick(d) == EmTickWithin(d, MaxEmClock)

----------------------------------------------------------------------------
\* The handlers, as the dispatcher sees them

\* the handler objects an application registers
EmailHandler == [cls |-> "EmailAddress", name |-> "email"]
IndieAuthA == [cls |-> "IndieAuth", name |-> "indieauth-a"]
IndieAuthB == [cls |-> "IndieAuth", name |-> "indieauth-b"]
HandlerObjects == {EmailHandler, IndieAuthA, IndieAuthB}

\* the identity strings a user types, as urlparse splits them: an identity
\* URL, mailto:b@x, b@x
TypedAddr == <<"b", "@", "x">>
IdentityStrings ==
    IdUrls \cup { Url("mailto", "", TypedAddr), Url("", "", TypedAddr) }

\* validate_email.validate_email(url): a bare address
validate_email(url) ==
    /\ url.scheme = ""
    /\ url.netloc = ""
    /\ \E i \in 1..Len(url.path) : url.path[i] = "@"

\* EmailAddress.handles_url
email_handles_url(url) ==
    IF url.scheme = "mailto" THEN Some(url)
    ELSE IF validate_email(url) THEN Some(Url("mailto", "", url.path))
    ELSE None

\* IndieAuth.handles_url: "if url in _ENDPOINT_CACHE: return url"
indieauth_handles_url(cache, url) ==
    IF cache_get(cache, url) # None THEN Some(url) ELSE None

handles_url(handler, cache, url) ==
    IF handler.cls = "EmailAddress" THEN email_handles_url(url)
    ELSE indieauth_handles_url(cache, url)

\* what a call hands back
Returned(value) == [kind |-> "Returned", value |-> value]

\* positional parameters of handles_page, self not counted:
\* EmailAddress.handles_page(self, headers, content, links),
\* IndieAuth.handles_page(self, url, headers, content, links)
HandlesPageArity(cls) == IF cls = "EmailAddress" THEN 3 ELSE 4

\* handler.handles_page(*args): the outcome and the endpoint cache it leaves.
\* A call with another number of arguments raises TypeError before the body.
handles_page(handler, cache, args, fetch) ==
    IF Len(args) # HandlesPageArity(handler.cls)
    THEN [out |-> Raised("TypeError"), cache |-> cache]
    ELSE IF handler.cls = "EmailAddress"
    THEN [out |-> Returned(FALSE), cache |-> cache]
    ELSE LET fe == find_endpoint(cache, args[1], args[4], args[3], fetch)
         IN  IF fe.raised
             THEN [out |-> Raised("ConnectionError"), cache |-> cache]
             ELSE [out |-> Returned(fe.ret # None), cache |-> fe.cache]

----------------------------------------------------------------------------
\* The dispatcher: class Authl

\* (mutant of first_handles_url) the last handler that claims the URL
RECURSIVE last_handles_url(_, _, _, _)
last_handles_url(hs, cache, url, pos) ==
    IF pos >= Len(hs) THEN -1
    ELSE LET later == last_handles_url(hs, cache, url, pos + 1)
         IN  IF later # -1 THEN later
             ELSE IF handles_url(hs[pos + 1], cache, url) # None THEN pos
             ELSE -1

\* "for pos, handler in enumerate(self._handlers): if handler.handles_url(url)":
\* the position, counted from 0, at which the loop returns; -1 when it ends
RECURSIVE first_handles_url(_, _, _, _)
first_handles_url(hs, cache, url, pos) ==
    IF pos >= Len(hs) THEN -1
    ELSE IF handles_url(hs[pos + 1], cache, url) # None THEN pos
    ELSE first_handles_url(hs, cache, url, pos + 1)

\* requests.get(url): raises for a string that is no http(s) URL and when the
\* connection fails
requests_get(url, fetch) ==
    IF url.scheme = ""
    THEN [raised |-> TRUE, exc |-> "MissingSchema", gets |-> 0]
    ELSE IF url.scheme \notin {"http", "https"}
    THEN [raised |-> TRUE, exc |-> "InvalidSchema", gets |-> 0]
    ELSE IF fetch.failed
    THEN [raised |-> TRUE, exc |-> "ConnectionError", gets |-> 1]
    ELSE [raised |-> FALSE, exc |-> "", gets |-> 1]

\* "for pos, handler in enumerate(self._handlers):
\*      if handler.handles_page(request.headers, request.text)"
RECURSIVE first_handles_page(_, _, _, _, _)
first_handles_page(hs, cache, args, fetch, pos) ==
    IF pos >= Len(hs)
    THEN [out |-> Returned([handler |-> None, pos |-> -1]), cache |-> cache,
          page_calls |-> pos]
    ELSE LET r == handles_page(hs[pos + 1], cache, args, fetch)
         IN  IF r.out.kind = "Raised"
             THEN [out |-> r.out, cache |-> r.cache, page_calls |-> pos + 1]
             ELSE IF r.out.value
             THEN [out |-> Returned([handler |-> Some(hs[pos + 1]), pos |-> pos]),
                   cache |-> r.cache, page_calls |-> pos + 1]
             ELSE first_handles_page(hs, r.cache, args, fetch, pos + 1)

\* Authl.get_handler_for_url(url)
get_handler_for_url(hs, cache, url, fetch) ==
    LET pos == first_handles_url(hs, cache, url, 0)
    IN  IF pos # -1
        THEN [out |-> Returned([handler |-> Some(hs[pos + 1]), pos |-> pos]),
              cache |-> cache, url_calls |-> pos + 1, gets |-> 0, page_calls |-> 0]
        ELSE LET request == requests_get(url, fetch)
             IN  IF request.raised
                 THEN [out |-> Raised(request.exc), cache |-> cache,
                       url_calls |-> Len(hs), gets |-> request.gets, page_calls |-> 0]
                 ELSE LET second == first_handles_page(
                                        hs, cache, <<"request.headers", "request.text">>,
                                        fetch, 0)
                      IN  [out |-> second.out, cache |-> second.cache,
                           url_calls |-> Len(hs), gets |-> request.gets,
                           page_calls |-> second.page_calls]

\* (mutant of add_handler) the new handler put first
add_handler_first(hs, handler) == <<handler>> \o hs

\* Authl.add_handler: self._handlers.append(handler)
add_handler(hs, handler) == Append(hs, handler)

\* Authl.get_handler_by_id: self._handlers[handler_id], a Python list index
get_handler_by_id(hs, handler_id) ==
    IF handler_id >= 0 /\ handler_id < Len(hs)
    THEN Returned(hs[handler_id + 1])
    ELSE IF handler_id < 0 /\ -handler_id <= Len(hs)
    THEN Returned(hs[Len(hs) + handler_id + 1])
    ELSE Raised("IndexError")

iaRest == <<ia_now, ia_timeout, token_store, cb_seen, ia_last>>

AddHandler(handler) ==
    /\ Len(handlers) < MaxHandlers
    /\ handlers' = add_handler(handlers, handler)
    /\ au_last' = [op |-> "add_handler", handler |-> handler]
    /\ UNCHANGED <<matched, endpoint_cache, iaRest>>

GetHandlerForUrl(url, fetch) ==
    LET r == get_handler_for_url(handlers, endpoint_cache, url, fetch)
    IN  /\ au_last' = [op |-> "get_handler_for_url", url |-> url,
                       failed |-> r.gets > 0 /\ fetch.failed,
                       out |-> r.out, url_calls |-> r.url_calls, gets |-> r.gets,
                       page_calls |-> r.page_calls]
        /\ matched' = IF r.out.kind = "Returned"
                      THEN Some([handler |-> r.out.value.handler,
                                 pos |-> r.out.value.pos, n |-> Len(handlers)])
                      ELSE matched
        /\ endpoint_cache' = r.cache
        /\ UNCHANGED <<handlers, iaRest>>

GetHandlerById(handler_id) ==
    /\ au_last' = [op |-> "get_handler_by_id", handler_id |-> handler_id,
                   out |-> get_handler_by_id(handlers, handler_id)]
    /\ UNCHANGED <<handlers, matched, endpoint_cache, iaRest>>

\* find_endpoint called with an identity URL or none, and the links and the
\* content of a page or none; `fetch` is the answer the network has for a GET
FindEndpoint(id_url, links, content, fetch) ==
    LET fe == find_endpoint(endpoint_cache, id_url, links, content, fetch)
    IN  /\ au_last' = [op |-> "find_endpoint", id_url |-> id_url, links |-> links,
                       content |-> content,
                       page |-> IF fe.fetched THEN Some(fetch) ELSE None,
                       cached |-> cache_get(endpoint_cache, id_url),
                       raised |-> fe.raised, ret |-> fe.ret, gets |-> fe.gets]
        /\ endpoint_cache' = fe.cache
        /\ UNCHANGED <<handlers, matched, iaRest>>

----------------------------------------------------------------------------
\* Specifications

IdleVerify ==
    /\ request_id = Url("https", "a.example", <<>>)
    /\ response_id = Url("https", "a.example", <<>>)
    /\ result = None
    /\ vpc = "idle"

IdleIA ==
    /\ ia_now = 0
    /\ ia_timeout = DefaultTimeout
    /\ endpoint_cache = [u \in IdUrls |-> None]
    /\ token_store = <<>>
    /\ cb_seen = <<>>
    /\ ia_last = NoCall

\* IndieAuth.handles_page(url, headers, content, links), called on a handler
HandlesPage(url, links, content, fetch) ==
    LET r == handles_page(IndieAuthA, endpoint_cache,
                          <<url, "headers", content, links>>, fetch)
    IN  /\ au_last' = [op |-> "handles_page", id_url |-> url, links |-> links,
                       content |-> content,
                       cached |-> cache_get(endpoint_cache, url), out |-> r.out]
        /\ endpoint_cache' = r.cache
        /\ UNCHANGED <<handlers, matched, iaRest>>

IdleThreads == threads = [t \in Threads |-> [pc |-> "idle"]]

IdleAuthl ==
    /\ handlers = <<>>
    /\ matched = None
    /\ au_last = NoCall

IdleEmail ==
    /\ em_now = 0
    /\ em_lifetime = DefaultLifetime
    /\ timeouts = [a \in Addrs |-> None]
    /\ sent = {}
    /\ extended = [a \in Addrs |-> 0]
    /\ redeemed = {}
    /\ em_last = NoCall

\* the timeout argument of IndieAuth.__init__
TimeoutArgs == {None, Some(300)}

InitIA ==
    /\ IdleVerify
    /\ IdleEmail
    /\ IdleAuthl
    /\ IdleThreads
    /\ ia_now = 0
    /\ ia_timeout \in { TimeoutOf(t) : t \in TimeoutArgs }
    /\ endpoint_cache = [u \in IdUrls |-> None]
    /\ token_store = <<>>
    /\ cb_seen = <<>>
    /\ ia_last = NoCall

NextIA ==
    \/ \E id_url \in IdUrls, redir \in Redirs :
          \E fetch \in AnswersTo(find_endpoint(endpoint_cache, id_url, None, None,
                                               NetworkFailure).gets) :
             InitiateAuth(id_url, redir, fetch)
             /\ UNCHANGED <<verifyVars, emVars, auVars, concVars>>
    \/ \E state \in {None} \cup { Some(k) : k \in 0..Len(token_store) },
          has_code \in BOOLEAN, exch \in Exchanges :
          CheckCallback(state, has_code, exch) /\ UNCHANGED <<verifyVars, emVars, auVars, concVars>>
    \/ \E d \in TickSteps : Tick(d) /\ UNCHANGED <<verifyVars, emVars, auVars, concVars>>

Spec == InitIA /\ [][NextIA]_vars

\* the expires_time argument of EmailAddress.__init__
LifetimeArgs == {None, Some(600)}

InitEmail ==
    /\ IdleVerify
    /\ IdleIA
    /\ IdleAuthl
    /\ IdleThreads
    /\ em_now = 0
    /\ em_lifetime \in { LifetimeOf(t) : t \in LifetimeArgs }
    /\ timeouts = [a \in Addrs |-> None]
    /\ sent = {}
    /\ extended = [a \in Addrs |-> 0]
    /\ redeemed = {}
    /\ em_last = NoCall

NextEmail ==
    \/ \E id_url \in MailUrls, send_ok \in BOOLEAN :
          EmInitiateAuth(id_url, send_ok) /\ UNCHANGED <<verifyVars, iaVars, auVars, concVars>>
    \/ \E m \in sent : \E get \in Presented(m.link) :
          EmCheckCallback(get) /\ UNCHANGED <<verifyVars, iaVars, auVars, concVars>>
    \/ \E d \in EmTickSteps : EmTick(d) /\ UNCHANGED <<verifyVars, iaVars, auVars, concVars>>

SpecEmail == InitEmail /\ [][NextEmail]_vars

\* one address, turned away many times in a row and then left alone until the
\* rate-limit cache has dropped its entry
CooldownTickSteps(lifetime) == {lifetime \div 2, lifetime * MaxAgeFactor}

NextCooldown ==
    \/ \E send_ok \in BOOLEAN :
          EmInitiateAuthWithin([scheme |-> "mailto", path |-> TypedAddr], send_ok,
                               MaxStreak, MaxSends)
          /\ UNCHANGED <<verifyVars, iaVars, auVars, concVars>>
    \/ \E d \in CooldownTickSteps(em_lifetime) :
          EmTickWithin(d, MaxLongClock) /\ UNCHANGED <<verifyVars, iaVars, auVars, concVars>>

SpecCooldown == InitEmail /\ [][NextCooldown]_vars

\* two threads, each handling one initiate_auth, while time passes
NextThreads ==
    \/ \E t \in Threads, id_url \in MailUrls :
          ThreadCheck(t, id_url) /\ UNCHANGED <<verifyVars, iaVars, auVars>>
    \/ \E t \in Threads :
          ThreadExtend(t) /\ UNCHANGED <<verifyVars, iaVars, auVars>>
    \/ \E t \in Threads, send_ok \in BOOLEAN :
          ThreadSend(t, send_ok) /\ UNCHANGED <<verifyVars, iaVars, auVars>>
    \/ \E t \in Threads :
          ThreadRecord(t) /\ UNCHANGED <<verifyVars, iaVars, auVars>>
    \/ \E d \in EmTickSteps :
          EmTick(d) /\ UNCHANGED <<verifyVars, iaVars, auVars, concVars>>

SpecThreads == InitEmail /\ [][NextThreads]_vars

\* the handlers argument of Authl.__init__: "self._handlers = handlers or []"
HandlersArgs == {None, Some(<<EmailHandler>>)}

InitAuthl ==
    /\ IdleVerify
    /\ IdleIA
    /\ IdleEmail
    /\ IdleThreads
    /\ handlers \in { IF h = None THEN <<>> ELSE h[1] : h \in HandlersArgs }
    /\ matched = None
    /\ au_last = NoCall

NextAuthl ==
    \/ \E handler \in HandlerObjects :
          AddHandler(handler) /\ UNCHANGED <<verifyVars, emVars, concVars>>
    \/ \E url \in IdentityStrings :
          \E fetch \in AnswersTo(get_handler_for_url(
                                   handlers, endpoint_cache, url, NetworkFailure).gets) :
             GetHandlerForUrl(url, fetch) /\ UNCHANGED <<verifyVars, emVars, concVars>>
    \/ \E handler_id \in -1..MaxHandlers :
          GetHandlerById(handler_id) /\ UNCHANGED <<verifyVars, emVars, concVars>>
    \/ \E id_url \in IdUrls :
          \* a page of the identity URL was seen to carry the Link header
          FindEndpoint(id_url, EpLinks, None, NetworkFailure)
          /\ UNCHANGED <<verifyVars, emVars, concVars>>

SpecAuthl == InitAuthl /\ [][NextAuthl]_vars

\* find_endpoint on its own
InitFind ==
    /\ IdleVerify
    /\ IdleIA
    /\ IdleEmail
    /\ IdleAuthl
    /\ IdleThreads

NextFind ==
    \/ \E id_url \in {None} \cup IdUrls, pg \in Pages :
          \E fetch \in AnswersTo(find_endpoint(endpoint_cache, id_url, pg.links,
                                               pg.content, NetworkFailure).gets) :
             FindEndpoint(id_url, pg.links, pg.content, fetch)
             /\ UNCHANGED <<verifyVars, emVars, concVars>>
    \/ \E url \in IdUrls, pg \in Pages :
          \E fetch \in AnswersTo(find_endpoint(endpoint_cache, url, pg.links,
                                               pg.content, NetworkFailure).gets) :
             HandlesPage(url, pg.links, pg.content, fetch)
             /\ UNCHANGED <<verifyVars, emVars, concVars>>

SpecFind == InitFind /\ [][NextFind]_vars

----------------------------------------------------------------------------
\* verify_id on its own: the inputs are drawn in the initial state, one
\* action applies the function.

InitVerify ==
    /\ request_id \in { Url("https", n, p) : n \in Netlocs, p \in Paths(MaxReqLen) }
    /\ response_id \in { Url(s, n, p) : s \in Schemes, n \in Netlocs, p \in Paths(MaxRespLen) }
    /\ result = None
    /\ vpc = "call"
    /\ IdleIA
    /\ IdleEmail
    /\ IdleAuthl
    /\ IdleThreads

VerifyId ==
    /\ vpc = "call"
    /\ result' = verify_id(request_id, response_id)
    /\ vpc' = "done"
    /\ UNCHANGED <<request_id, response_id>>
    /\ UNCHANGED <<iaVars, emVars, auVars, concVars>>

NextVerify == VerifyId

SpecVerify == InitVerify /\ [][NextVerify]_vars

----------------------------------------------------------------------------
\* Properties of IndieAuth.check_callback (Spec)

LastIsCallback == ia_last.op = "check_callback"

\* the transaction the last callback's state token names
LastTxn == token_store[ia_last.state[1]]

\* the last callback presented a token that resolves, a code, and the provider
\* answered 200 with a JSON body whose 'me' verify_id accepts
LastExchangeGood ==
    /\ LastIsCallback
    /\ ia_last.resolved
    /\ ia_last.has_code
    /\ ia_last.exch.kind = "http"
    /\ ia_last.exch.status = 200
    /\ ia_last.exch.body = "json"
    /\ ia_last.exch.me # None
    /\ verify_id(LastTxn.id_url, ia_last.exch.me[1]) # None

\* the last callback's code exchange failed: no code, no connection, a status
\* other than 200, a body that is no JSON, or a JSON body without 'me'
LastExchangeFailed ==
    /\ LastIsCallback
    /\ ia_last.resolved
    /\ \/ ~ia_last.has_code
       \/ ia_last.exch.kind = "netfail"
       \/ ia_last.exch.status # 200
       \/ ia_last.exch.body = "notjson"
       \/ ia_last.exch.me = None

C5_NoTransactionIsError ==
    (LastIsCallback /\ ~ia_last.resolved) => ia_last.out.kind = "Error"

\* C6: with a valid state, every failure of the code exchange yields an Error
\* disposition carrying the stored redir; none raises.
C6_ExchangeFailureIsError ==
    LastExchangeFailed =>
        /\ ia_last.out.kind = "Error"
        /\ "redir" \in DOMAIN ia_last.out
        /\ ia_last.out.redir = LastTxn.redir

C8_ExpiredIsError ==
    ( /\ LastIsCallback
      /\ ia_last.state # None
      /\ ia_last.state[1] \in 1..Len(token_store)
      /\ ia_last.at - token_store[ia_last.state[1]].issued > ia_timeout )
    => ia_last.out.kind = "Error"

----------------------------------------------------------------------------
\* Properties of the email handler (SpecEmail)

LastIsEmInitiate == em_last.op = "initiate_auth"

\* the last call was initiate_auth for an address whose recorded next-allowed
\* time was still ahead
LastWasLimited ==
    /\ LastIsEmInitiate
    /\ em_last.prev # None
    /\ em_last.prev[1].value > em_last.at

\* the wait that remained when the last call came
LastRemaining == em_last.prev[1].value - em_last.at

\* every call before the next-allowed time returns Error and moves the
\* next-allowed time to now + 1.2 x the remaining wait
LimitedCallsExtend ==
    LastWasLimited =>
        /\ em_last.out.kind = "Error"
        /\ timeouts[em_last.addr] # None
        /\ 5 * (timeouts[em_last.addr][1].value - em_last.at) = 6 * LastRemaining

\* the last call was at least the second in a row the rate limit turned away
LastWasSecondLimited == LastWasLimited /\ extended[em_last.addr] >= 2

LastIsEmCallback == em_last.op = "check_callback"

InSeq(x, seq) == \E i \in 1..Len(seq) : seq[i] = x

\* C10: the parameters of a link initiate_auth sent, presented unchanged: less
\* than the lifetime after the send check_callback returns Verified with the
\* lowercased address, more than the lifetime after it an Error with the
\* expiry reason.
C10_RoundTrip ==
    LastIsEmCallback =>
        \A m \in sent :
            em_last.get = m.link =>
                /\ em_last.at - m.at < Secs(em_lifetime) =>
                       /\ em_last.out.kind = "Verified"
                       /\ em_last.out.identity = Lower(m.to)
                /\ em_last.at - m.at > Secs(em_lifetime) =>
                       /\ em_last.out.kind = "Error"
                       /\ InSeq("signature timestamp expired", em_last.out.message)

C10_Witness ==
    /\ LastIsEmCallback
    /\ \E m \in sent :
          /\ m.to = <<"B", "@", "x">>
          /\ em_last.get = m.link
          /\ em_last.at - m.at = Secs(600)
          /\ em_lifetime = 900
    /\ em_last.out.kind = "Verified"
    /\ em_last.out.identity = <<"b", "@", "x">>

\* C11: a link check_callback has answered Verified for is not answered
\* Verified again.
C11_SingleUse ==
    (LastIsEmCallback /\ em_last.again) => em_last.out.kind # "Verified"

\* C17: when the send function raises, initiate_auth raises with it, returning
\* neither Notify nor Error, and the address's rate-limit entry is the one
\* from before the call.
C17_FailedSendNoCooldown ==
    (LastIsEmInitiate /\ em_last.sendmail = "raised") =>
        /\ em_last.out.kind = "Raised"
        /\ timeouts[em_last.addr] = em_last.prev
        /\ \A m \in sent : ~(m.to = em_last.addr /\ m.at = em_last.at)

\* the send fails for an address whose cooldown is over and whose entry the
\* cache still holds
C17_Witness ==
    /\ LastIsEmInitiate
    /\ em_last.sendmail = "raised"
    /\ em_last.prev # None
    /\ em_last.prev[1].value < em_last.at
    /\ timeouts[em_last.addr] = em_last.prev

\* C21: no message is sent to an address before the next-allowed time most
\* recently recorded for it.
C21_NoSendBeforeNextAllowed ==
    ( /\ LastIsEmInitiate
      /\ em_last.sendmail = "returned"
      /\ em_last.recorded # None )
    => em_last.at >= em_last.recorded[1].value

----------------------------------------------------------------------------
\* Properties of concurrent initiate_auth calls (SpecThreads)

\* both threads have finished a call for the same address, each found no
\* rate-limit entry for it when it made its test, and no send failed
BothDoneSameFreshAddress ==
    /\ \A t \in Threads :
          /\ threads[t].pc = "done"
          /\ threads[t].fresh
          /\ threads[t].out # Raised("sendmail")
    /\ threads[1].addr = threads[2].addr

\* C22: of two concurrent calls for an address without a rate-limit entry at
\* most one sends a message, and the other returns the rate-limit Error.
C22_AtMostOneMessage ==
    BothDoneSameFreshAddress =>
        /\ Cardinality({ m \in sent : m.to = threads[1].addr }) <= 1
        /\ \E t \in Threads : threads[t].out.kind = "Error"

----------------------------------------------------------------------------
\* Properties of verify_id (SpecVerify)

P_u == <<"/", "u">>
P_u_slash == <<"/", "u", "/">>
P_u_x == <<"/", "u", "/", "x">>
P_x == <<"/", "x">>
P_ux == <<"/", "u", "x">>

SameNetloc == request_id.netloc = response_id.netloc

\* the request path's segments, one trailing empty segment ignored
RequestSegments ==
    LET segs == Split(request_id.path)
    IN  IF segs[Len(segs)] = <<>> THEN SubSeq(segs, 1, Len(segs) - 1) ELSE segs

\* the segments of the path of the URL verify_id returned
ReturnedSegments == Split(result[1].path)

\* the returned path is at or below the request path, segment by segment
ReturnedBelowRequest ==
    \A i \in 1..Len(RequestSegments) :
        i <= Len(ReturnedSegments) /\ ReturnedSegments[i] = RequestSegments[i]

\* C2: verify_id succeeds only if the leading segments of the normalized
\* response path equal the request path's segments (one trailing empty request
\* segment ignored), segment by segment: request /u accepts /u/ and /u/x and
\* rejects /x and /ux, although /u is a string prefix of /ux.
C2_SegmentPrefix ==
    vpc = "done" =>
        /\ result # None => ReturnedBelowRequest
        /\ (SameNetloc /\ request_id.path = P_u) =>
            /\ response_id.path \in {P_u_slash, P_u_x} => result # None
            /\ response_id.path \in {P_x, P_ux} => result = None

C2_Witness ==
    /\ vpc = "done"
    /\ request_id.path = P_u_slash
    /\ response_id.path = P_u_x
    /\ result = Some([response_id EXCEPT !.path = P_u_x])

RECURSIVE AscendsAboveRoot(_, _)
AscendsAboveRoot(parts, depth) ==
    IF parts = <<>> THEN FALSE
    ELSE IF Head(parts) = <<".", ".">>
         THEN depth = 0 \/ AscendsAboveRoot(Tail(parts), depth - 1)
    ELSE IF Head(parts) \in {<<>>, <<".">>}
         THEN AscendsAboveRoot(Tail(parts), depth)
    ELSE AscendsAboveRoot(Tail(parts), depth + 1)

HasDotDot(segs) == \E i \in 1..Len(segs) : segs[i] = <<".", ".">>

\* C4: a response path with a '..' that comes when no segment is retained is
\* rejected; and whenever a response path with a '..' is accepted, the returned
\* path holds no '..' and is at or below the request path.
C4_NoAscent ==
    vpc = "done" =>
        /\ AscendsAboveRoot(Split(response_id.path), 0) => result = None
        /\ (HasDotDot(Split(response_id.path)) /\ result # None) =>
            /\ ~HasDotDot(ReturnedSegments)
            /\ ReturnedBelowRequest

C4_Witness ==
    /\ vpc = "done"
    /\ SameNetloc
    /\ request_id.path = P_u
    /\ response_id.path = <<"/", ".", ".", "/", "u">>
    /\ result = None

----------------------------------------------------------------------------
\* Properties of IndieAuth.initiate_auth (Spec)

LastIsInitiate == ia_last.op = "initiate_auth"

\* C16: initiate_auth does not raise; when find_endpoint finds no endpoint it
\* returns Error and issues no token, otherwise it issues one token and
\* returns the Redirect to the endpoint with redirect_uri, client_id, that
\* token as state, response_type=id and me=id_url.
C16_ErrorOrRedirect ==
    LastIsInitiate =>
        /\ ia_last.out.kind # "Raised"
        /\ ia_last.endpoint = None =>
               /\ ia_last.out.kind = "Error"
               /\ Len(token_store) = ia_last.tokens
        /\ ia_last.endpoint # None =>
               /\ Len(token_store) = ia_last.tokens + 1
               /\ ia_last.out =
                      Redirect(<<AuthUrl(ia_last.endpoint[1], CallbackUri,
                                         ia_last.tokens + 1, ia_last.id_url)>>)

----------------------------------------------------------------------------
\* Properties of the dispatcher (SpecAuthl)

LastIsMatch == au_last.op = "get_handler_for_url"

\* the registered handlers, by position from 1, whose handles_url claims url
Claimants(url) ==
    { k \in 1..Len(handlers) : handles_url(handlers[k], endpoint_cache, url) # None }

FirstClaimant(url) == CHOOSE k \in Claimants(url) : \A j \in Claimants(url) : k <= j

\* C12: when a handler claims the URL via handles_url, the match returns the
\* first such handler in registration order with its index, after consulting
\* no handler behind it, making no GET and calling no handles_page.
C12_FirstClaimantWins ==
    (LastIsMatch /\ Claimants(au_last.url) # {}) =>
        LET k == FirstClaimant(au_last.url)
        IN  /\ au_last.out = Returned([handler |-> Some(handlers[k]), pos |-> k - 1])
            /\ au_last.url_calls = k
            /\ au_last.gets = 0
            /\ au_last.page_calls = 0

\* handlers [A, B], two different handlers that both claim the URL: A is returned
C12_Witness ==
    /\ LastIsMatch
    /\ handlers = <<IndieAuthA, IndieAuthB>>
    /\ Claimants(au_last.url) = {1, 2}
    /\ au_last.out = Returned([handler |-> Some(IndieAuthA), pos |-> 0])

\* C13: when no handler claims the string via handles_url and the GET fails at
\* the network level, the match returns "no handler" (None, -1) and does not
\* raise.
C13_NetworkFailureIsNoHandler ==
    (LastIsMatch /\ au_last.failed) =>
        au_last.out = Returned([handler |-> None, pos |-> -1])

\* C18: the index a match returned with a handler names that handler for good:
\* get_handler_by_id(index) returns it, however many handlers were added since.
C18_IndexIsStable ==
    (matched # None /\ matched[1].handler # None) =>
        /\ get_handler_by_id(handlers, matched[1].pos) = Returned(matched[1].handler[1])
        /\ (au_last.op = "get_handler_by_id" /\ au_last.handler_id = matched[1].pos) =>
               au_last.out = Returned(matched[1].handler[1])

\* a handler matched at index 1 of two, another handler added since, and
\* get_handler_by_id(1) called
C18_Witness ==
    /\ matched # None
    /\ matched[1].handler = Some(IndieAuthA)
    /\ matched[1].pos = 1
    /\ matched[1].n = 2
    /\ Len(handlers) > matched[1].n
    /\ handlers[Len(handlers)] # IndieAuthA
    /\ au_last.op = "get_handler_by_id"
    /\ au_last.handler_id = 1
    /\ au_last.out = Returned(IndieAuthA)

----------------------------------------------------------------------------
\* Properties of find_endpoint (SpecFind)

LastIsFind == au_last.op = "find_endpoint"

\* links or content were supplied to the last call
LastSupplied == au_last.links # None \/ au_last.content # None

\* the page the last call read an endpoint from, if it read one: the supplied
\* links and content, or else the page it fetched
LastPage ==
    IF LastSupplied /\ (~au_last.gets > 0)
    THEN Some([links |-> au_last.links, content |-> au_last.content])
    ELSE IF au_last.gets > 0 /\ ~au_last.raised
    THEN Some([links |-> au_last.page[1].links, content |-> au_last.page[1].content])
    ELSE None

HeaderOf(page) ==
    IF page.links # None /\ "authorization_endpoint" \in DOMAIN page.links
    THEN Some(page.links["authorization_endpoint"]) ELSE None

TagOf(page) ==
    IF page.content # None THEN page.content.link ELSE None

\* the href of a <link> element as an absolute URL on the identity's site
Resolved(id_url, href) ==
    IF href = RelTag THEN Url(id_url.scheme, id_url.netloc, <<"/", "t">>) ELSE href

\* what the page the last call read advertises, header first
LastDiscovered ==
    IF LastPage = None THEN None
    ELSE IF HeaderOf(LastPage[1]) # None THEN HeaderOf(LastPage[1])
    ELSE IF TagOf(LastPage[1]) # None
    THEN IF au_last.id_url # None
         THEN Some(Resolved(au_last.id_url, TagOf(LastPage[1])[1]))
         ELSE TagOf(LastPage[1])
    ELSE None

\* C14: a call for an identity URL with a cached endpoint and without links
\* and content returns the cached endpoint and makes no GET.
C14_CacheHit ==
    ( /\ LastIsFind
      /\ au_last.id_url # None
      /\ ~LastSupplied
      /\ au_last.cached # None )
    => /\ au_last.ret = au_last.cached
       /\ au_last.gets = 0
       /\ ~au_last.raised

C14_Witness ==
    /\ LastIsFind
    /\ au_last.id_url = Url("https", "a.example", <<"/", "u">>)
    /\ ~LastSupplied
    /\ au_last.cached = Some(EpTag)
    /\ au_last.ret = Some(EpTag)
    /\ au_last.gets = 0

\* C15: when a call for an identity URL discovers an endpoint, in supplied
\* links or content or in the page it fetched, the cache entry of the URL is
\* that endpoint afterwards, and that endpoint is what the call returns.
C15_FreshOverwritesStale ==
    (LastIsFind /\ au_last.id_url # None /\ LastDiscovered # None) =>
        /\ endpoint_cache[au_last.id_url] = LastDiscovered
        /\ au_last.ret = LastDiscovered

\* a stale entry overwritten
C15_Witness ==
    /\ LastIsFind
    /\ au_last.id_url # None
    /\ au_last.cached = Some(EpTag)
    /\ LastDiscovered = Some(EpHeader)
    /\ endpoint_cache[au_last.id_url] = Some(EpHeader)
    /\ au_last.ret = Some(EpHeader)

\* C19: the header relation of the page read is the result whatever the
\* document's <link> element says; the element is the result only when the
\* header relation is absent, resolved against the identity URL.
C19_HeaderPreferred ==
    (LastIsFind /\ LastPage # None) =>
        /\ HeaderOf(LastPage[1]) # None => au_last.ret = HeaderOf(LastPage[1])
        /\ ( /\ HeaderOf(LastPage[1]) = None
             /\ TagOf(LastPage[1]) # None
             /\ au_last.id_url # None )
           => au_last.ret = Some(Resolved(au_last.id_url, TagOf(LastPage[1])[1]))
        /\ (au_last.ret # None /\ au_last.ret = TagOf(LastPage[1])) =>
               HeaderOf(LastPage[1]) = None

\* header and element name different endpoints: the header's is returned
C19_Witness ==
    /\ LastIsFind
    /\ au_last.links = EpLinks
    /\ au_last.content = Doc(Some(EpTag))
    /\ au_last.ret = Some(EpHeader)

\* C20: the call makes one GET when an identity URL is given, the supplied
\* links and content yield no endpoint and the cache holds none for the URL;
\* in every other case it makes none.
C20_FetchExactlyWhen ==
    LastIsFind =>
        au_last.gets =
            IF /\ au_last.id_url # None
               /\ HeaderOf([links |-> au_last.links, content |-> au_last.content]) = None
               /\ TagOf([links |-> au_last.links, content |-> au_last.content]) = None
               /\ au_last.cached = None
            THEN 1 ELSE 0

\* a page without an endpoint supplied, nothing cached: one GET
C20_Witness ==
    /\ LastIsFind
    /\ au_last.id_url # None
    /\ au_last.links = OtherLinks
    /\ au_last.content = Doc(None)
    /\ au_last.cached = None
    /\ au_last.gets = 1
    /\ au_last.ret = Some(EpHeader)

\* the last call was given links or content, and they advertise no endpoint
LastSuppliedWithoutEndpoint ==
    /\ au_last.op \in {"find_endpoint", "handles_page"}
    /\ LastSupplied
    /\ HeaderOf([links |-> au_last.links, content |-> au_last.content]) = None
    /\ TagOf([links |-> au_last.links, content |-> au_last.content]) = None

\* C23: given links or content that advertise no endpoint, find_endpoint does
\* not return the endpoint cached for the identity URL, and
\* IndieAuth.handles_page does not claim the page.
C23_NoStaleEndpoint ==
    (LastSuppliedWithoutEndpoint /\ au_last.cached # None) =>
        /\ LastIsFind => au_last.ret # au_last.cached
        /\ au_last.op = "handles_page" => au_last.out = Returned(FALSE)

====
